---- MODULE Spec2Model ----
(***************************************************************************)
(* Model of the VocabularyApp component of src/src/App.jsx: the React      *)
(* state of the component, the row parser of loadData, the handlers that   *)
(* the rendered screens and the window-level key listeners dispatch, and   *)
(* the closure that the keydown listener holds between re-registrations.   *)
(*                                                                         *)
(* Strings are sequences of one-character strings; "CR" and "LF" stand for *)
(* the carriage-return and line-feed characters.  A spreadsheet cell is a  *)
(* record [def, s]: def = FALSE is JavaScript's undefined.                 *)
(***************************************************************************)
EXTENDS Integers, Sequences, FiniteSets, TLC

\* ------------------------------------------------------------------ bounds
MaxRows == 2      \* data rows of an uploaded sheet
MaxTotal == 2     \* submissions counted before the model stops submitting
MaxLen == 2       \* characters of a word or an answer in SpecNorm
MaxQLen == 4      \* characters of a question cell in SpecParse

\* ------------------------------------------------------------- JS strings
Undefined == [def |-> FALSE, s |-> <<>>]
Str(s) == [def |-> TRUE, s |-> s]

\* String.prototype.toLowerCase on the model's alphabet
LowerChar(c) == CASE c = "A" -> "a" [] c = "B" -> "b" [] OTHER -> c
toLowerCase(s) == [i \in 1..Len(s) |-> LowerChar(s[i])]

\* String.prototype.trim: white space and line terminators at both ends
IsWhiteSpace(c) == c \in {" ", "CR", "LF"}
RECURSIVE TrimStart(_)
TrimStart(s) == IF s # <<>> /\ IsWhiteSpace(Head(s)) THEN TrimStart(Tail(s)) ELSE s
RECURSIVE TrimEnd(_)
TrimEnd(s) ==
  IF s # <<>> /\ IsWhiteSpace(s[Len(s)]) THEN TrimEnd(SubSeq(s, 1, Len(s) - 1)) ELSE s
trim(s) == TrimEnd(TrimStart(s))

\* position of the first "\r\n" in s, 0 when there is none
CRLFAt(s) ==
  LET hits == {i \in 1..(Len(s) - 1) : s[i] = "CR" /\ s[i + 1] = "LF"}
  IN IF hits = {} THEN 0 ELSE CHOOSE i \in hits : \A j \in hits : i <= j
\* sentence.includes('\r\n')
includesCRLF(s) == CRLFAt(s) # 0
\* sentence.split('\r\n')[1]: the piece between the first and the second "\r\n"
splitCRLF1(s) ==
  LET rest == SubSeq(s, CRLFAt(s) + 2, Len(s))
  IN IF includesCRLF(rest) THEN SubSeq(rest, 1, CRLFAt(rest) - 1) ELSE rest

\* JavaScript truthiness of a cell that is a string or undefined
Truthy(c) == c.def /\ c.s # <<>>

\* -------------------------------------------------------------- row parser
\* row[k] with k zero-based; reading past the end of the array is undefined
Cell(row, k) == IF k + 1 <= Len(row) THEN row[k + 1] ELSE Undefined

Sentence(row) ==
  LET q == Cell(row, 8)
      sentence == IF Truthy(q) /\ includesCRLF(q.s) THEN Str(splitCRLF1(q.s)) ELSE q
  IN IF Truthy(sentence) THEN sentence ELSE Cell(row, 4)

Exercise(row) ==
  [sentence |-> Sentence(row), id |-> Cell(row, 0), word |-> Cell(row, 5),
   hint |-> Cell(row, 7), blankedWord |-> Cell(row, 6),
   meaning |-> Cell(row, 3), pronunciation |-> Cell(row, 2)]

\* the loop of loadData over rawData[1..], skipping the header and empty rows
RECURSIVE ParseFrom(_, _)
ParseFrom(rawData, i) ==
  IF i > Len(rawData) THEN <<>>
  ELSE IF Len(rawData[i]) = 0 THEN ParseFrom(rawData, i + 1)
  ELSE <<Exercise(rawData[i])>> \o ParseFrom(rawData, i + 1)
exercisesData(rawData) == ParseFrom(rawData, 2)

\* _.shuffle: every permutation of the parsed sequence is a possible outcome
Shuffles(seq) ==
  LET n == Len(seq)
      perms == {p \in [1..n -> 1..n] : \A i, j \in 1..n : p[i] = p[j] => i = j}
  IN {[i \in 1..n |-> seq[p[i]]] : p \in perms}

\* ------------------------------------------------------------------ inputs
MkRow(id, word, example, question) ==
  <<Str(<<id>>), Undefined, Str(<<"p">>), Str(<<"m">>), example, word,
    Str(<<"_">>), Str(<<"h">>), question>>
HeaderRow == MkRow("#", Str(<<"w">>), Str(<<"e">>), Str(<<"q">>))
EmptyRow == <<>>
RowA == MkRow("1", Str(<<"A", "b">>), Str(<<"e">>), Str(<<"L", "CR", "LF", "s">>))
RowB == MkRow("2", Str(<<"b", " ">>), Str(<<"e">>), Str(<<"q">>))
RowNoWord == MkRow("3", Undefined, Str(<<"e">>), Undefined)
RowPool == {EmptyRow, RowA, RowB, RowNoWord}

RECURSIVE SeqsUpTo(_, _)
SeqsUpTo(S, n) ==
  IF n = 0 THEN {<<>>}
  ELSE LET shorter == SeqsUpTo(S, n - 1)
       IN shorter \cup {Append(q, x) : q \in {r \in shorter : Len(r) = n - 1}, x \in S}
\* the decoded sheets: a sheet without any row, or a header and data rows
Sheets == {<<>>} \cup {<<HeaderRow>> \o rows : rows \in SeqsUpTo(RowPool, MaxRows)}
\* every exercise set that parsing and shuffling one of the sheets can produce
LoadOutcomes == UNION {Shuffles(exercisesData(rawData)) : rawData \in Sheets}

\* what the learner can type into the answer input
Answers == {<<>>, <<" ", "a", "B">>, <<"b">>}

\* ------------------------------------------------------------------- state
VARIABLES
  exercises,             \* useState([])
  currentExerciseIndex,  \* useState(0)
  userAnswer,            \* useState('')
  feedback,              \* useState('')
  isCorrect,             \* useState(null): "null", "true" or "false"
  showMeaning,           \* useState(false)
  loading,               \* useState(true)
  stats,                 \* useState({correct: 0, total: 0})
  exerciseMode,          \* useState('normal')
  keyDown,               \* what the registered keydown listener closed over
  event,                 \* the event handled last
  threw                  \* whether its handler raised a TypeError

vars == <<exercises, currentExerciseIndex, userAnswer, feedback, isCorrect,
          showMeaning, loading, stats, exerciseMode, keyDown, event, threw>>

\* the component state as one value, the way a render sees it
Cur ==
  [exercises |-> exercises, currentExerciseIndex |-> currentExerciseIndex,
   userAnswer |-> userAnswer, feedback |-> feedback, isCorrect |-> isCorrect,
   showMeaning |-> showMeaning, loading |-> loading, stats |-> stats,
   exerciseMode |-> exerciseMode]

InitialState ==
  [exercises |-> <<>>, currentExerciseIndex |-> 0, userAnswer |-> <<>>,
   feedback |-> <<>>, isCorrect |-> "null", showMeaning |-> FALSE,
   loading |-> TRUE, stats |-> [correct |-> 0, total |-> 0],
   exerciseMode |-> "normal"]

\* the closure of handleKeyDown: the nextExercise/prevExercise of one render
Closure(S) ==
  [currentExerciseIndex |-> S.currentExerciseIndex, length |-> Len(S.exercises)]

\* useEffect(..., [currentExerciseIndex]): the listener is replaced by the one
\* of the new render only when the index differs from the previous render's
EffectKeyDown(S) ==
  IF S.currentExerciseIndex # currentExerciseIndex THEN Closure(S) ELSE keyDown

\* the screen the render shows
ScreenOf(S) ==
  IF S.loading THEN "loading"
  ELSE IF S.exerciseMode = "review" THEN "review" ELSE "active"
Mode == ScreenOf(Cur)

\* exercises[currentExerciseIndex] || {}
HasCurrent(S) == S.currentExerciseIndex + 1 <= Len(S.exercises)
currentWord(S) ==
  IF HasCurrent(S) THEN S.exercises[S.currentExerciseIndex + 1].word ELSE Undefined

\* ---------------------------------------------------------------- handlers
CorrectMsg == <<"Correct!">>
NotQuiteMsg(word) == <<"Not quite. The correct answer is \"">> \o word.s \o <<"\"">>

\* a loader that also clears the score
loadDataClearsStats(S, shuffled) ==
  [S EXCEPT !.exercises = shuffled, !.currentExerciseIndex = 0, !.loading = FALSE,
            !.stats = [correct |-> 0, total |-> 0]]

loadData(S, shuffled) ==
  [S EXCEPT !.exercises = shuffled, !.currentExerciseIndex = 0, !.loading = FALSE]

\* currentExercise.word.toLowerCase() raises a TypeError when word is undefined
checkAnswerThrows(S) == ~currentWord(S).def

\* a comparison that lowers and trims the word only
isAnswerCorrectRawInput(S) ==
  trim(toLowerCase(currentWord(S).s)) = S.userAnswer

isAnswerCorrect(S) ==
  trim(toLowerCase(currentWord(S).s)) = trim(toLowerCase(S.userAnswer))

checkAnswer(S) ==
  IF checkAnswerThrows(S) THEN S
  ELSE [S EXCEPT
          !.isCorrect = IF isAnswerCorrect(S) THEN "true" ELSE "false",
          !.feedback = IF isAnswerCorrect(S) THEN CorrectMsg
                       ELSE NotQuiteMsg(currentWord(S)),
          !.stats = [correct |-> S.stats.correct + (IF isAnswerCorrect(S) THEN 1 ELSE 0),
                     total |-> S.stats.total + 1]]

\* a reset that leaves the feedback text in place
resetKeepsFeedback(S) ==
  [S EXCEPT !.userAnswer = <<>>, !.isCorrect = "null", !.showMeaning = FALSE]

\* a reset that leaves the meaning panel open
resetKeepsMeaning(S) ==
  [S EXCEPT !.userAnswer = <<>>, !.feedback = <<>>, !.isCorrect = "null"]

resetExerciseState(S) ==
  [S EXCEPT !.userAnswer = <<>>, !.feedback = <<>>, !.isCorrect = "null",
            !.showMeaning = FALSE]

\* an off-by-one bound: the last exercise is advanced past its end
nextExerciseOffByOne(S, idx, len) ==
  IF idx < len
  THEN [S EXCEPT !.currentExerciseIndex = idx + 1, !.userAnswer = <<>>,
                 !.feedback = <<>>, !.isCorrect = "null", !.showMeaning = FALSE]
  ELSE [S EXCEPT !.exerciseMode = "review"]

\* idx and len are the currentExerciseIndex and exercises.length of the render
\* whose nextExercise/prevExercise is called
nextExercise(S, idx, len) ==
  IF idx < len - 1
  THEN resetExerciseState([S EXCEPT !.currentExerciseIndex = idx + 1])
  ELSE [S EXCEPT !.exerciseMode = "review"]

\* a previous() that moves the cursor and keeps the attempt of the exercise left
prevExerciseKeepsAttempt(S, idx) ==
  IF idx > 0 THEN [S EXCEPT !.currentExerciseIndex = idx - 1] ELSE S

\* a previous() that resets the attempt even when it cannot move
prevExerciseAlwaysResets(S, idx) ==
  IF idx > 0
  THEN resetExerciseState([S EXCEPT !.currentExerciseIndex = idx - 1])
  ELSE resetExerciseState(S)

prevExercise(S, idx) ==
  IF idx > 0
  THEN resetExerciseState([S EXCEPT !.currentExerciseIndex = idx - 1])
  ELSE S

\* a restart that forgets the score
restartKeepsStats(S) ==
  [resetExerciseState(S) EXCEPT
     !.exercises = <<>>, !.currentExerciseIndex = 0,
     !.exerciseMode = "normal", !.loading = TRUE]

restartExercises(S) ==
  [resetExerciseState(S) EXCEPT
     !.exercises = <<>>, !.currentExerciseIndex = 0,
     !.stats = [correct |-> 0, total |-> 0], !.exerciseMode = "normal",
     !.loading = TRUE]

toggleMeaning(S) == [S EXCEPT !.showMeaning = ~S.showMeaning]

\* -------------------------------------------------------------- percentage
Num(n) == [n |-> n, kind |-> "number"]
NaN == [n |-> 0, kind |-> "NaN"]
\* Math.round((correct / total) * 100): halves round up; 0/0 is NaN
RoundPercent(correct, total) ==
  IF total = 0
  THEN (IF correct = 0 THEN NaN ELSE [n |-> 0, kind |-> "Infinity"])
  ELSE Num((200 * correct + total) \div (2 * total))
reviewPercent(S) == RoundPercent(S.stats.correct, S.stats.total)
activePercent(S) ==
  IF S.stats.total > 0 THEN RoundPercent(S.stats.correct, S.stats.total) ELSE Num(0)
DisplayedPercent ==
  IF Mode = "review" THEN reviewPercent(Cur) ELSE activePercent(Cur)

\* ----------------------------------------------------------------- actions
Init ==
  /\ exercises = InitialState.exercises
  /\ currentExerciseIndex = InitialState.currentExerciseIndex
  /\ userAnswer = InitialState.userAnswer
  /\ feedback = InitialState.feedback
  /\ isCorrect = InitialState.isCorrect
  /\ showMeaning = InitialState.showMeaning
  /\ loading = InitialState.loading
  /\ stats = InitialState.stats
  /\ exerciseMode = InitialState.exerciseMode
  /\ keyDown = Closure(InitialState)
  /\ event = "mount"
  /\ threw = FALSE

\* the state S is rendered, the effects run, and the event is recorded
Handle(name, S, raised) ==
  /\ exercises' = S.exercises
  /\ currentExerciseIndex' = S.currentExerciseIndex
  /\ userAnswer' = S.userAnswer
  /\ feedback' = S.feedback
  /\ isCorrect' = S.isCorrect
  /\ showMeaning' = S.showMeaning
  /\ loading' = S.loading
  /\ stats' = S.stats
  /\ exerciseMode' = S.exerciseMode
  /\ keyDown' = EffectKeyDown(S)
  /\ event' = name
  /\ threw' = raised

\* the file input is rendered on every screen; the decoded sheet reaches
\* loadData when the read and the import have completed
FileLoaded ==
  \E shuffled \in LoadOutcomes :
    Handle("loadData", loadData(Cur, shuffled), FALSE)

\* handleFileChange with event.target.files[0] undefined
FileCancelled == Handle("noFile", Cur, FALSE)

\* onChange of the answer input, which is disabled once answered
TypeAnswer ==
  /\ Mode = "active" /\ isCorrect = "null"
  /\ \E v \in Answers : v # userAnswer /\ Handle("type", [Cur EXCEPT !.userAnswer = v], FALSE)

\* onKeyPress of the answer input with key Enter
InputEnter ==
  /\ Mode = "active" /\ isCorrect = "null"
  /\ stats.total < MaxTotal
  /\ IF userAnswer # <<>> /\ isCorrect = "null"
     THEN Handle("submit", checkAnswer(Cur), checkAnswerThrows(Cur))
     ELSE Handle("enterIgnored", Cur, FALSE)

\* a Check Answer button that stays rendered once answered
CheckButtonUngated ==
  /\ Mode = "active" /\ userAnswer # <<>>
  /\ stats.total < MaxTotal
  /\ Handle("submit", checkAnswer(Cur), checkAnswerThrows(Cur))

\* the Check Answer button: rendered while unanswered, disabled while empty
CheckButton ==
  /\ Mode = "active" /\ isCorrect = "null" /\ userAnswer # <<>>
  /\ stats.total < MaxTotal
  /\ Handle("submit", checkAnswer(Cur), checkAnswerThrows(Cur))

\* the Next Exercise button: rendered once answered
NextButton ==
  /\ Mode = "active" /\ isCorrect # "null"
  /\ Handle("next", nextExercise(Cur, currentExerciseIndex, Len(exercises)), FALSE)

\* the Previous button: disabled at index 0
PrevButton ==
  /\ Mode = "active" /\ currentExerciseIndex # 0
  /\ Handle("previous", prevExercise(Cur, currentExerciseIndex), FALSE)

RetryButton ==
  /\ Mode = "active"
  /\ Handle("retry", resetExerciseState(Cur), FALSE)

MeaningButton ==
  /\ Mode = "active"
  /\ Handle("toggleMeaning", toggleMeaning(Cur), FALSE)

\* the Start Again button of the review screen
StartAgain ==
  /\ Mode = "review"
  /\ Handle("restart", restartExercises(Cur), FALSE)

\* window keydown listeners: registered on every screen
ArrowRight ==
  Handle("ArrowRight", nextExercise(Cur, keyDown.currentExerciseIndex, keyDown.length), FALSE)

ArrowLeft ==
  Handle("ArrowLeft", prevExercise(Cur, keyDown.currentExerciseIndex), FALSE)

\* the Tab listener only moves the focus
TabKey == Handle("Tab", Cur, FALSE)

\* The component-level handleKeyPress (Enter, r, R) is attached to no element:
\* the only window listeners are handleKeyDown (arrows) and the Tab listener,
\* and the answer input, the only element with an onKeyPress, is disabled once
\* the exercise is answered.  A key press that no listener handles changes
\* nothing.
EnterKey ==
  /\ Mode = "active" /\ isCorrect # "null"
  /\ Handle("Enter", Cur, FALSE)

\* r or R pressed on the active screen with the focus outside the answer input
KeyR ==
  /\ Mode = "active"
  /\ Handle("r", Cur, FALSE)

Next ==
  \/ FileLoaded
  \/ FileCancelled
  \/ TypeAnswer
  \/ InputEnter
  \/ CheckButton
  \/ NextButton
  \/ PrevButton
  \/ RetryButton
  \/ MeaningButton
  \/ StartAgain
  \/ ArrowRight
  \/ ArrowLeft
  \/ TabKey
  \/ EnterKey
  \/ KeyR

Spec == Init /\ [][Next]_vars

\* ------------------------------------------------------- one set per pass
\* The learner uploads a file on the loading screen only, so every exercise
\* set starts with the score {0, 0} that mount or restart left.
FirstLoad == Mode = "loading" /\ FileLoaded

NextSession ==
  \/ FirstLoad
  \/ FileCancelled
  \/ TypeAnswer
  \/ InputEnter
  \/ CheckButton
  \/ NextButton
  \/ PrevButton
  \/ RetryButton
  \/ MeaningButton
  \/ StartAgain
  \/ ArrowRight
  \/ ArrowLeft
  \/ TabKey
  \/ EnterKey
  \/ KeyR

SpecSession == Init /\ [][NextSession]_vars

\* ------------------------------------------------ answer comparison alone
\* One exercise whose word is any string over the alphabet has been loaded and
\* any string has been typed; the only events are the two ways to submit.
Alphabet == {"a", "A", "b", " "}
Strings == SeqsUpTo(Alphabet, MaxLen)

InitNorm ==
  \E w \in Strings : \E a \in Strings :
    /\ exercises = <<Exercise(MkRow("1", Str(w), Str(<<"e">>), Str(<<"q">>)))>>
    /\ currentExerciseIndex = 0
    /\ userAnswer = a
    /\ feedback = <<>>
    /\ isCorrect = "null"
    /\ showMeaning = FALSE
    /\ loading = FALSE
    /\ stats = [correct |-> 0, total |-> 0]
    /\ exerciseMode = "normal"
    /\ keyDown = Closure(InitialState)
    /\ event = "type"
    /\ threw = FALSE

NextNorm == CheckButton \/ InputEnter

SpecNorm == InitNorm /\ [][NextNorm]_vars

\* ------------------------------------------------------ row parser alone
\* The sheets of this specification have one data row whose question is any
\* string over {x, CR, LF} or is missing.  The row repeats the question in
\* the hint column and the example in the meaning column, which loadData
\* copies unchanged, so the loaded exercise carries the inputs of its sentence.
QAlphabet == {"x", "CR", "LF"}
Questions == {Undefined} \cup {Str(q) : q \in SeqsUpTo(QAlphabet, MaxQLen)}
Examples == {Undefined, Str(<<"e">>)}
RowQ(q, e) ==
  <<Str(<<"1">>), Undefined, Str(<<"p">>), e, e, Str(<<"A">>), Str(<<"_">>), q, q>>

FileLoadedParse ==
  \E q \in Questions : \E e \in Examples :
    \E shuffled \in Shuffles(exercisesData(<<HeaderRow, RowQ(q, e)>>)) :
      Handle("loadData", loadData(Cur, shuffled), FALSE)

SpecParse == Init /\ [][FileLoadedParse]_vars

TypeOK ==
  /\ currentExerciseIndex \in Nat
  /\ isCorrect \in {"null", "true", "false"}
  /\ showMeaning \in BOOLEAN /\ loading \in BOOLEAN
  /\ exerciseMode \in {"normal", "review"}
  /\ stats.total \in 0..MaxTotal /\ stats.correct \in 0..MaxTotal
  /\ keyDown.currentExerciseIndex = currentExerciseIndex

\* ------------------------------------------------------------- properties
AttemptReset(S) ==
  S.userAnswer = <<>> /\ S.isCorrect = "null" /\ S.feedback = <<>> /\ ~S.showMeaning
AttemptOf(S) == <<S.userAnswer, S.isCorrect, S.feedback, S.showMeaning>>
\* the answer typed matches the word of the exercise under the cursor
Matched ==
  /\ currentWord(Cur).def
  /\ trim(toLowerCase(currentWord(Cur).s)) = trim(toLowerCase(userAnswer))
ZeroScore == [correct |-> 0, total |-> 0]

\* C1: whenever the session is active and the exercise set is non-empty, the
\* cursor lies in 0 .. length-1.
C1_CursorInRange ==
  (Mode = "active" /\ Len(exercises) > 0)
    => (0 <= currentExerciseIndex /\ currentExerciseIndex < Len(exercises))

\* C2: every submit adds exactly 1 to stats.total, adds 1 to stats.correct when
\* the answer matched and 0 otherwise, leaves cursor and mode alone and leaves
\* the exercise answered.
C2_SubmitCounts ==
  [][event' = "submit" =>
       /\ stats'.total = stats.total + 1
       /\ stats'.correct = stats.correct + (IF Matched THEN 1 ELSE 0)
       /\ currentExerciseIndex' = currentExerciseIndex
       /\ Mode' = Mode
       /\ isCorrect' # "null"]_vars

\* C3: a completed load leaves cursor 0, score {0, 0} and a reset attempt
\* state, whatever the state it arrives in.
C3_LoadResets ==
  [][event' = "loadData" =>
       /\ currentExerciseIndex' = 0
       /\ stats' = ZeroScore
       /\ AttemptReset(Cur')]_vars

\* C4: the session starts on the loading screen and a completed load always
\* shows the active screen, never the loading or the review screen.
C4_Lifecycle ==
  [][event' = "loadData" => Mode' = "active"]_vars

C6_ReviewFrozen ==
  [][(Mode = "review" /\ event' \in {"ArrowRight", "ArrowLeft"}) =>
       /\ currentExerciseIndex' = currentExerciseIndex
       /\ AttemptOf(Cur') = AttemptOf(Cur)
       /\ stats' = stats
       /\ Mode' = "review"]_vars

\* C7: Right-arrow has the effect of next() and Left-arrow the effect of
\* previous(), both taken on the exercise set and cursor of the key press.
C7_ArrowsAreNextPrev ==
  [][/\ event' = "ArrowRight" =>
          Cur' = nextExercise(Cur, currentExerciseIndex, Len(exercises))
     /\ event' = "ArrowLeft" =>
          Cur' = prevExercise(Cur, currentExerciseIndex)]_vars

\* C8: the score never decreases except by restart, and only submit and
\* restart change it.
C8_ScoreMonotone ==
  [][/\ event' # "restart" =>
          (stats'.correct >= stats.correct /\ stats'.total >= stats.total)
     /\ stats' # stats => event' \in {"submit", "restart"}
     /\ (stats' # stats /\ stats' = ZeroScore) => event' = "restart"]_vars
\* a score that was earned before a load is still there after it
C8_Witness == event = "loadData" /\ stats.total > 0 /\ stats.correct > 0

\* C9: the percentage on the active and review screens is
\* round(100 * correct / total) when total > 0 and 0 when total = 0.
C9_Percentage ==
  Mode \in {"active", "review"} =>
    DisplayedPercent =
      (IF stats.total > 0
       THEN Num((200 * stats.correct + stats.total) \div (2 * stats.total))
       ELSE Num(0))

\* C10: a submit is taken only on an unanswered exercise with a non-empty
\* answer; an answered exercise keeps its score, verdict and feedback until
\* next, previous, retry or restart resets the attempt.
C10_SubmitGated ==
  [][/\ event' = "submit" => (isCorrect = "null" /\ userAnswer # <<>>)
     /\ (/\ isCorrect # "null"
         /\ <<stats, isCorrect, feedback>>' # <<stats, isCorrect, feedback>>) =>
          /\ event' \in {"next", "previous", "retry", "restart",
                         "ArrowRight", "ArrowLeft"}
          /\ isCorrect' = "null" /\ feedback' = <<>>]_vars
\* an exercise has just been answered by a submit
C10_Witness ==
  event = "submit" /\ ~threw /\ isCorrect # "null" /\ Mode = "active" /\ stats.total >= 1

\* C11: previous() on the active screen, by the Previous button or the
\* Left-arrow key: with cursor > 0 it subtracts 1 from the cursor and resets
\* the attempt state; with cursor = 0 it changes neither the cursor nor the
\* attempt state; the score is unchanged in both cases.
C11_Previous ==
  [][(Mode = "active" /\ event' \in {"previous", "ArrowLeft"}) =>
       /\ stats' = stats
       /\ currentExerciseIndex > 0 =>
            /\ currentExerciseIndex' = currentExerciseIndex - 1
            /\ AttemptReset(Cur')
       /\ currentExerciseIndex = 0 =>
            /\ currentExerciseIndex' = 0
            /\ AttemptOf(Cur') = AttemptOf(Cur)]_vars
\* Left-arrow at the first exercise has left a typed answer and an open
\* meaning panel in place
C11_Witness ==
  /\ event = "ArrowLeft" /\ Mode = "active" /\ currentExerciseIndex = 0
  /\ Len(exercises) >= 2 /\ userAnswer # <<>> /\ showMeaning

\* C12: retry() empties userAnswer and feedback, sets isCorrect to unknown and
\* hides the meaning, and leaves cursor, score, exercise set and mode alone.
C12_Retry ==
  [][event' = "retry" =>
       /\ AttemptReset(Cur')
       /\ currentExerciseIndex' = currentExerciseIndex
       /\ stats' = stats
       /\ exercises' = exercises
       /\ Mode' = Mode]_vars
\* an answered exercise past the first has just been retried
C12_Witness ==
  /\ event = "retry" /\ Mode = "active" /\ isCorrect = "null"
  /\ stats.total > 0 /\ currentExerciseIndex > 0

C14_MalformedRowIsIncorrect ==
  [][(event' = "submit" /\ HasCurrent(Cur) /\ ~Truthy(currentWord(Cur))) =>
       /\ isCorrect' = "false"
       /\ stats'.total = stats.total + 1
       /\ stats'.correct = stats.correct
       /\ ~threw']_vars

\* C15: with an exercise set of length 0 on the active screen, next, previous,
\* submit and retry change neither mode, cursor nor score, and raise no error.
C15_EmptySetNoOps ==
  [][(/\ Mode = "active" /\ Len(exercises) = 0
      /\ event' \in {"next", "ArrowRight", "previous", "ArrowLeft", "submit", "retry"}) =>
       /\ Mode' = Mode
       /\ currentExerciseIndex' = currentExerciseIndex
       /\ stats' = stats
       /\ ~threw']_vars

\* C16: on an answered exercise the Enter key has the effect of next(), and
\* the r/R key has the effect of retry().
C16_EnterAndR ==
  [][/\ (event' = "Enter" /\ isCorrect # "null") =>
          Cur' = nextExercise(Cur, currentExerciseIndex, Len(exercises))
     /\ event' = "r" => Cur' = resetExerciseState(Cur)]_vars

\* the part of s between its first and its last non-white-space character
Core(s) ==
  LET ink == {i \in 1..Len(s) : ~IsWhiteSpace(s[i])}
  IN IF ink = {} THEN <<>>
     ELSE SubSeq(s, CHOOSE i \in ink : \A j \in ink : i <= j,
                    CHOOSE i \in ink : \A j \in ink : i >= j)
\* equal but for the case of letters and for surrounding white space
SameButCaseAndPadding(w, a) ==
  /\ Len(Core(w)) = Len(Core(a))
  /\ \A i \in 1..Len(Core(w)) : LowerChar(Core(w)[i]) = LowerChar(Core(a)[i])

\* C17: a submit sets isCorrect to true exactly when the word and the answer
\* are equal after trimming and lowering: case and surrounding white space
\* never make an answer incorrect, any other difference always does.
C17_Normalize ==
  [][event' = "submit" =>
       /\ isCorrect' \in {"true", "false"}
       /\ isCorrect' = "true" <=>
            SameButCaseAndPadding(currentWord(Cur).s, userAnswer)]_vars
\* an answer that differs from the word in case or padding was accepted
C17_Witness ==
  /\ event = "submit" /\ isCorrect = "true"
  /\ currentWord(Cur).s # userAnswer
  /\ Len(currentWord(Cur).s) # Len(userAnswer)

\* the sentence the claim derives from a question cell q and an example cell e
ClaimedSentence(q, e) ==
  LET derived == IF q.def /\ includesCRLF(q.s)
                 THEN Str(SubSeq(q.s, CRLFAt(q.s) + 2, Len(q.s)))
                 ELSE q
  IN IF ~derived.def \/ derived.s = <<>> THEN e ELSE derived

\* C18: the sentence of a loaded exercise is the question verbatim when the
\* question has no line-break, everything after the first line-break
\* (later line-breaks included) when it has one, and the example text when
\* that is empty or absent.
C18_Sentence ==
  \A i \in 1..Len(exercises) :
    exercises[i].sentence =
      ClaimedSentence(exercises[i].hint, exercises[i].meaning)

C20_Consistent ==
  /\ 0 <= stats.correct /\ stats.correct <= stats.total
  /\ (feedback # <<>>) <=> (isCorrect # "null")
\* a wrong answer and its feedback have outlived an upload
C20_Witness ==
  /\ event = "loadData" /\ isCorrect = "false" /\ feedback # <<>>
  /\ stats.correct > 0 /\ stats.correct < stats.total

\* under SpecSession every load finds the score at {0, 0}
SessionLoadsAtZero == event = "loadData" => stats = ZeroScore
====
